---- MODULE Spec2Model ----
(***************************************************************************)
(* Model of crates/router_macros/src/lib.rs: the Routes derive macro.      *)
(*                                                                         *)
(* Strings whose characters the code inspects (paths, variant names, field *)
(* names, format templates, rendered URLs) are sequences of one-character  *)
(* strings.  Attribute identifiers, which the code only compares as a      *)
(* whole, are plain strings.  Option<T> is a sequence of length 0 or 1.    *)
(***************************************************************************)
EXTENDS Integers, Sequences, FiniteSets, TLC

\* Largest number of variants in an input enum.
MaxVariants == 2
\* Longest path literal given to the URL formatter.
MaxPathLen == 4
\* Largest number of fields of a variant given to the URL formatter.
MaxFields == 2
\* Longest input given to the identifier transform.
MaxNameLen == 3

VARIABLES
    pc,                   \* position inside routes_macro
    schema,               \* data.variants: the variants of the input enum
    variants,             \* Vec<RouteVariant>
    urls,                 \* arms of the generated url()
    methods,              \* arms of the generated method()
    axum_route,           \* the .route(..) calls of the generated router()
    static_file_handler,  \* items emitted for the embedded assets
    output,               \* Ok(tokens) of routes_macro, or the panic message
    upc,                  \* position of one url() arm: generation, then a call
    path,                 \* the LitStr of the arm's variant
    fields,               \* the Fields of the arm's variant
    self,                 \* the field values of the enum value url() is called on
    arm,                  \* the right-hand side produced by right()
    url,                  \* the String returned by url()
    spc,                  \* position of one pascal_to_camel call
    input,                \* its argument
    result                \* its return value

macroVars == <<pc, schema, variants, urls, methods, axum_route, static_file_handler, output>>
urlVars == <<upc, path, fields, self, arm, url>>
snakeVars == <<spc, input, result>>
vars == <<macroVars, urlVars, snakeVars>>

----------------------------------------------------------------------------
(* Characters *)

UpperAscii ==
    <<"A","B","C","D","E","F","G","H","I","J","K","L","M",
      "N","O","P","Q","R","S","T","U","V","W","X","Y","Z">>

LowerAscii ==
    <<"a","b","c","d","e","f","g","h","i","j","k","l","m",
      "n","o","p","q","r","s","t","u","v","w","x","y","z">>

\* Uppercase letters outside ASCII and their lowercase forms (E acute).
UpperOther == <<"U+00C9">>

LowerOther == <<"U+00E9">>

IndexIn(c, table) == CHOOSE i \in DOMAIN table : table[i] = c

IsIn(c, table) == \E i \in DOMAIN table : table[i] = c

\* char::to_ascii_lowercase: only 'A'..='Z' are mapped.
ToAsciiLowercase(c) ==
    IF IsIn(c, UpperAscii) THEN LowerAscii[IndexIn(c, UpperAscii)] ELSE c

\* char::is_uppercase: the Unicode property.
IsUppercase(c) == IsIn(c, UpperAscii) \/ IsIn(c, UpperOther)

\* char::to_lowercase().next().unwrap()
ToLowercase(c) ==
    IF IsIn(c, UpperAscii) THEN LowerAscii[IndexIn(c, UpperAscii)]
    ELSE IF IsIn(c, UpperOther) THEN LowerOther[IndexIn(c, UpperOther)]
    ELSE c

Digits == <<"0","1","2","3","4","5","6","7","8","9">>

----------------------------------------------------------------------------
(* pascal_to_camel *)

RECURSIVE PushRest(_)
\* The while loop over the remaining characters.
PushRest(chars) ==
    IF chars = <<>> THEN <<>>
    ELSE IF IsUppercase(Head(chars))
         THEN <<"_", ToLowercase(Head(chars))>> \o PushRest(Tail(chars))
         ELSE <<Head(chars)>> \o PushRest(Tail(chars))

PascalToCamelFirstUnchanged(s) ==
    IF s = <<>> THEN <<>> ELSE <<Head(s)>> \o PushRest(Tail(s))

pascal_to_camel(s) ==
    IF s = <<>> THEN <<>>
    ELSE <<ToAsciiLowercase(Head(s))>> \o PushRest(Tail(s))

----------------------------------------------------------------------------
(* String helpers: str::split('/'), [&str]::join, format! *)

HasSlash(s) == \E i \in DOMAIN s : s[i] = "/"

FirstSlash(s) == CHOOSE i \in DOMAIN s : s[i] = "/" /\ \A j \in 1..(i - 1) : s[j] # "/"

RECURSIVE Split(_)
\* str::split('/'): one more part than there are slashes, empty parts kept.
Split(s) ==
    IF ~HasSlash(s) THEN <<s>>
    ELSE <<SubSeq(s, 1, FirstSlash(s) - 1)>> \o Split(SubSeq(s, FirstSlash(s) + 1, Len(s)))

RECURSIVE Join(_, _)
\* [&str]::join(sep)
Join(parts, sep) ==
    IF parts = <<>> THEN <<>>
    ELSE IF Len(parts) = 1 THEN parts[1]
    ELSE parts[1] \o sep \o Join(Tail(parts), sep)

\* str::starts_with(":")
StartsWithColon(part) == part # <<>> /\ part[1] = ":"

\* A field value: an integer or a string, with the text Display writes for it.
Value(kind, text) == [kind |-> kind, text |-> text]

\* "{}": Display writes an integer in decimal and a string as it is.
Display(v) == v.text

\* "{:?}": Debug writes an integer in decimal and a string between quotes.
Debug(v) == IF v.kind = "str" THEN <<"\"">> \o v.text \o <<"\"">> ELSE v.text

IsDisplayMarker(fmt, i) == i + 1 <= Len(fmt) /\ fmt[i] = "{" /\ fmt[i + 1] = "}"

IsDebugMarker(fmt, i) ==
    i + 3 <= Len(fmt) /\ fmt[i] = "{" /\ fmt[i + 1] = ":" /\ fmt[i + 2] = "?" /\ fmt[i + 3] = "}"

RECURSIVE CountMarkers(_, _)
\* The number of "{}" and "{:?}" in a format string, from position i on.
CountMarkers(fmt, i) ==
    IF i > Len(fmt) THEN 0
    ELSE IF IsDisplayMarker(fmt, i) THEN 1 + CountMarkers(fmt, i + 2)
    ELSE IF IsDebugMarker(fmt, i) THEN 1 + CountMarkers(fmt, i + 4)
    ELSE CountMarkers(fmt, i + 1)

RECURSIVE FormatFrom(_, _, _, _)
\* format!(fmt, args..): the k-th marker from the left takes the k-th argument.
FormatFrom(fmt, i, args, k) ==
    IF i > Len(fmt) THEN <<>>
    ELSE IF IsDisplayMarker(fmt, i)
         THEN Display(args[k]) \o FormatFrom(fmt, i + 2, args, k + 1)
    ELSE IF IsDebugMarker(fmt, i)
         THEN Debug(args[k]) \o FormatFrom(fmt, i + 4, args, k + 1)
    ELSE <<fmt[i]>> \o FormatFrom(fmt, i + 1, args, k)

Format(fmt, args) == FormatFrom(fmt, 1, args, 1)

\* rustc accepts format!(fmt, args..) when every marker has an argument and
\* every argument is used.
FormatAccepted(fmt, args) == CountMarkers(fmt, 1) = Len(args)

----------------------------------------------------------------------------
(* right: the right-hand side of an arm of url() *)

\* Fields of a variant: Fields::Unit, Fields::Unnamed (list: the field types)
\* or Fields::Named (list: the field identifiers).
Unit == [kind |-> "Unit", list |-> <<>>]

Unnamed(types) == [kind |-> "Unnamed", list |-> types]

Named(idents) == [kind |-> "Named", list |-> idents]

\* Ident::new(&format!("x{}", i), ..) for the enumerate() index i (from 0).
XIdent(i) == <<"x", Digits[i + 1]>>

XIdents(fs) == [i \in 1..Len(fs.list) |-> XIdent(i - 1)]

MarkAnyColon(part) == IF \E i \in DOMAIN part : part[i] = ":" THEN <<"{", "}">> ELSE part

\* |part| if part.starts_with(":") { "{}" } else { part }
MarkPart(part) == IF StartsWithColon(part) THEN <<"{", "}">> ELSE part

right_from_unnamed(p, fs) ==
    LET parts == Split(p)
        format == Join([i \in DOMAIN parts |-> MarkPart(parts[i])], <<"/">>)
    IN [kind |-> "format", text |-> format, args |-> XIdents(fs)]

QueryItemDisplay(ident) == ident \o <<"=", "{", "}">>

\* format!("{}={{:?}}", ident)
QueryItem(ident) == ident \o <<"=", "{", ":", "?", "}">>

right_from_named(fs, p) ==
    LET idents == fs.list
        query == Join([i \in DOMAIN idents |-> QueryItem(idents[i])], <<"&">>)
        format == p \o <<"?">> \o query
    IN [kind |-> "format", text |-> format, args |-> idents]

right(fs, p) ==
    CASE fs.kind = "Named" -> right_from_named(fs, p)
      [] fs.kind = "Unnamed" -> right_from_unnamed(p, fs)
      [] fs.kind = "Unit" -> [kind |-> "to_owned", text |-> p, args |-> <<>>]

----------------------------------------------------------------------------
(* left: the pattern of an arm of url() and of method() *)

left_from_named(enum, variant, fs) ==
    [enum |-> enum, variant |-> variant, kind |-> "Struct", binds |-> fs.list]

LeftFromUnnamedOneBased(enum, variant, fs) ==
    [enum |-> enum, variant |-> variant, kind |-> "Tuple",
     binds |-> [i \in 1..Len(fs.list) |-> XIdent(i)]]

left_from_unnamed(enum, variant, fs) ==
    [enum |-> enum, variant |-> variant, kind |-> "Tuple", binds |-> XIdents(fs)]

left(enum, variant, fs) ==
    CASE fs.kind = "Named" -> left_from_named(enum, variant, fs)
      [] fs.kind = "Unnamed" -> left_from_unnamed(enum, variant, fs)
      [] fs.kind = "Unit" -> [enum |-> enum, variant |-> variant, kind |-> "Unit", binds |-> <<>>]

----------------------------------------------------------------------------
(* RouteVariant::from *)

\* An attribute: attr.path.get_ident() (None for a path of several segments)
\* and attr.parse_args::<LitStr>().ok().
Attr(ident, arg) == [ident |-> ident, arg |-> arg]

StarFile == <<"/", "*", "f", "i", "l", "e">>

\* The closure given to filter_map: the (method, path) pair an attribute
\* yields, if any.
FilterMapAttr(attr) ==
    IF attr.ident # <<>> /\ attr.arg # <<>>
    THEN IF attr.ident[1] # "folder"
         THEN <<[method |-> attr.ident[1], path |-> attr.arg[1]]>>
         ELSE <<>>
    ELSE IF attr.ident # <<>>
    THEN <<[method |-> "get", path |-> StarFile]>>
    ELSE <<>>

RECURSIVE FilterMapAttrs(_)
FilterMapAttrs(attrs) ==
    IF attrs = <<>> THEN <<>>
    ELSE FilterMapAttr(Head(attrs)) \o FilterMapAttrs(Tail(attrs))

\* .last(): None for an empty iterator.
Last(seq) == IF seq = <<>> THEN <<>> ELSE <<seq[Len(seq)]>>

First(seq) == IF seq = <<>> THEN <<>> ELSE <<seq[1]>>

\* .expect(..) panics exactly when no attribute yields a pair.
FromPanics(value) == Last(FilterMapAttrs(value.attrs)) = <<>>

ExpectMessage == "should be #[get], #[post], #[put], #[delete], #[state], #[embed] or #[folder]"

RouteVariantFrom(value) ==
    LET pair == Last(FilterMapAttrs(value.attrs))[1]
    IN [path |-> pair.path, method |-> pair.method,
        variant |-> value.ident, fields |-> value.fields]

----------------------------------------------------------------------------
(* routes_macro *)

enum_name == <<"R", "o", "u", "t", "e">>

UrlArm(rv) == [left |-> left(enum_name, rv.variant, rv.fields), right |-> right(rv.fields, rv.path)]

MethodArm(rv) == [left |-> left(enum_name, rv.variant, rv.fields), right |-> rv.method]

RouteCall(rv) == [path |-> rv.path, method |-> rv.method, fn_name |-> pascal_to_camel(rv.variant)]

IsEmbed(attr) == attr.ident = <<"embed">>

IsFolder(attr) == attr.ident = <<"folder">>

HasEmbed(variant) == \E i \in DOMAIN variant.attrs : IsEmbed(variant.attrs[i])

\* variant.attrs.iter().find(|attr| attr.path.is_ident("folder"))
FindFolder(variant) == First(SelectSeq(variant.attrs, IsFolder))

RECURSIVE FolderAttrs(_)
\* data.variants.iter().filter_map(find folder)
FolderAttrs(vs) ==
    IF vs = <<>> THEN <<>> ELSE FindFolder(Head(vs)) \o FolderAttrs(Tail(vs))

EmbedIdentFirst(vs) ==
    LET e == First(SelectSeq(vs, HasEmbed)) IN IF e = <<>> THEN <<>> ELSE <<e[1].ident>>

\* embed_attr / embed_ident: the last variant that has an embed attribute.
EmbedIdent(vs) ==
    LET e == Last(SelectSeq(vs, HasEmbed)) IN IF e = <<>> THEN <<>> ELSE <<e[1].ident>>

Static == <<"s", "t", "a", "t", "i", "c">>

FolderFirst(vs) ==
    LET f == First(FolderAttrs(vs))
    IN IF f = <<>> THEN Static ELSE IF f[1].arg # <<>> THEN f[1].arg[1] ELSE Static

\* folder_attr / folder
Folder(vs) ==
    LET f == Last(FolderAttrs(vs))
    IN IF f = <<>> THEN Static ELSE IF f[1].arg # <<>> THEN f[1].arg[1] ELSE Static

\* static_file_handler: the handler fn and the StaticFiles struct, or nothing.
StaticFileHandler(vs) ==
    LET e == EmbedIdent(vs)
    IN IF e # <<>>
       THEN <<[item |-> "fn", name |-> pascal_to_camel(e[1]), bundle |-> e[1], folder |-> <<>>],
              [item |-> "struct", name |-> e[1], bundle |-> e[1], folder |-> Folder(vs)]>>
       ELSE <<>>

----------------------------------------------------------------------------
(* Inputs *)

SeqsUpTo(S, n) == UNION {[1..k -> S] : k \in 0..n}

PathA == <<"/", "a">>

PathB == <<"/", "b", "/", ":", "i", "d">>

Assets == <<"a", "s", "s", "e", "t", "s">>

Pub == <<"p", "u", "b">>

Get(p) == Attr(<<"get">>, <<p>>)

Post(p) == Attr(<<"post">>, <<p>>)

Put(p) == Attr(<<"put">>, <<p>>)

Patch(p) == Attr(<<"patch">>, <<p>>)

Delete(p) == Attr(<<"delete">>, <<p>>)

\* #[embed]
Embed == Attr(<<"embed">>, <<>>)

\* #[folder("..")]
FolderStr(p) == Attr(<<"folder">>, <<p>>)

\* #[folder] or #[folder(7)]: no string literal to parse
FolderNoStr == Attr(<<"folder">>, <<>>)

\* #[doc = ".."], what a doc comment on the variant is
Doc == Attr(<<"doc">>, <<>>)

\* #[serde::skip]: a path that is no single identifier
Qualified == Attr(<<>>, <<>>)

\* The attribute lists a variant of the input enum may carry.
AttrLists ==
    { <<>>,
      <<Get(PathA)>>, <<Post(PathB)>>, <<Put(PathB)>>, <<Patch(PathA), Delete(PathB)>>,
      <<Get(PathA), Post(PathB)>>,
      <<Embed>>, <<Post(PathB), Embed>>,
      <<Embed, FolderStr(Assets)>>, <<FolderStr(Pub), Embed>>, <<Embed, FolderNoStr>>,
      <<FolderStr(Assets), FolderStr(Pub), Embed>>,
      <<FolderStr(Assets)>>, <<Post(PathB), FolderNoStr>>,
      <<Doc>>, <<Qualified>> }

FieldNames == << <<"a">>, <<"b">>, <<"i", "d">>, <<"q">> >>

FieldTypes == <<"u32", "String", "u32", "String">>

FieldShapes == {Unit, Unnamed(SubSeq(FieldTypes, 1, 2)), Named(SubSeq(FieldNames, 1, 2))}

\* Variant identifiers, by position in the enum.
VariantNames ==
    << <<"G", "e", "t", "U", "s", "e", "r">>, <<"S", "t", "a", "t", "i", "c">>,
       <<"H", "o", "m", "e">>, <<"A", "p", "i", "V", "2">> >>

\* The enum whose i-th variant has the attributes and fields c[i].
SchemaOf(c) ==
    [i \in DOMAIN c |-> [ident |-> VariantNames[i], attrs |-> c[i][1], fields |-> c[i][2]]]

PathChars == {"/", ":", "a"}

ItemsId == <<"/", "i", "t", "e", "m", "s", "/", ":", "i", "d">>

Search == <<"/", "s", "e", "a", "r", "c", "h">>

\* Every short path over PathChars, and two paths of the crate's documentation.
Paths == SeqsUpTo(PathChars, MaxPathLen) \cup {ItemsId, Search}

Values == {Value("int", <<"4", "2">>), Value("int", <<"2">>), Value("str", <<"x">>)}

FieldLists ==
    {Unit} \cup {Unnamed(SubSeq(FieldTypes, 1, n)) : n \in 0..MaxFields}
           \cup {Named(SubSeq(FieldNames, 1, n)) : n \in 0..MaxFields}

NameChars == {"a", "B", "_", "U+00C9"}

GetAllUsers == <<"G", "e", "t", "A", "l", "l", "U", "s", "e", "r", "s">>

HTTPServer == <<"H", "T", "T", "P", "S", "e", "r", "v", "e", "r">>

InputNames == SeqsUpTo(NameChars, MaxNameLen) \cup {GetAllUsers, HTTPServer}

----------------------------------------------------------------------------
(* Initial states *)

MacroIdle ==
    /\ pc = "idle" /\ schema = <<>> /\ variants = <<>> /\ urls = <<>> /\ methods = <<>>
    /\ axum_route = <<>> /\ static_file_handler = <<>> /\ output = <<>>

UrlIdle ==
    /\ upc = "idle" /\ path = <<>> /\ fields = Unit /\ self = <<>> /\ arm = <<>> /\ url = <<>>

SnakeIdle == spc = "idle" /\ input = <<>> /\ result = <<>>

\* routes_macro is entered with an enum.
Init ==
    /\ pc = "start"
    /\ \E n \in 0..MaxVariants :
          \E c \in [1..n -> AttrLists \X FieldShapes] : schema = SchemaOf(c)
    /\ variants = <<>> /\ urls = <<>> /\ methods = <<>>
    /\ axum_route = <<>> /\ static_file_handler = <<>> /\ output = <<>>
    /\ UrlIdle /\ SnakeIdle

\* One variant, its path and fields, and a value of it to call url() on.
InitUrl ==
    /\ upc = "start"
    /\ path \in Paths
    /\ fields \in FieldLists
    /\ self \in [1..Len(fields.list) -> Values]
    /\ arm = <<>> /\ url = <<>>
    /\ MacroIdle /\ SnakeIdle

\* pascal_to_camel is entered with a string.
InitSnake ==
    /\ spc = "start"
    /\ input \in InputNames
    /\ result = <<>>
    /\ MacroIdle /\ UrlIdle

----------------------------------------------------------------------------
(* routes_macro, step by step *)

\* variants: every RouteVariant::from returns.
Collect ==
    /\ pc = "start"
    /\ \A i \in DOMAIN schema : ~FromPanics(schema[i])
    /\ variants' = [i \in DOMAIN schema |-> RouteVariantFrom(schema[i])]
    /\ pc' = "variants"
    /\ UNCHANGED <<schema, urls, methods, axum_route, static_file_handler, output>>
    /\ UNCHANGED <<urlVars, snakeVars>>

\* variants: some RouteVariant::from panics, the derive yields the message only.
CollectPanic ==
    /\ pc = "start"
    /\ \E i \in DOMAIN schema : FromPanics(schema[i])
    /\ output' = <<[ok |-> FALSE, error |-> ExpectMessage, url |-> <<>>, method |-> <<>>,
                    router |-> <<>>, items |-> <<>>]>>
    /\ pc' = "panicked"
    /\ UNCHANGED <<schema, variants, urls, methods, axum_route, static_file_handler>>
    /\ UNCHANGED <<urlVars, snakeVars>>

BuildUrls ==
    /\ pc = "variants"
    /\ urls' = [i \in DOMAIN variants |-> UrlArm(variants[i])]
    /\ pc' = "urls"
    /\ UNCHANGED <<schema, variants, methods, axum_route, static_file_handler, output>>
    /\ UNCHANGED <<urlVars, snakeVars>>

BuildMethods ==
    /\ pc = "urls"
    /\ methods' = [i \in DOMAIN variants |-> MethodArm(variants[i])]
    /\ pc' = "methods"
    /\ UNCHANGED <<schema, variants, urls, axum_route, static_file_handler, output>>
    /\ UNCHANGED <<urlVars, snakeVars>>

BuildRoutes ==
    /\ pc = "methods"
    /\ axum_route' = [i \in DOMAIN variants |-> RouteCall(variants[i])]
    /\ pc' = "axum_route"
    /\ UNCHANGED <<schema, variants, urls, methods, static_file_handler, output>>
    /\ UNCHANGED <<urlVars, snakeVars>>

\* embed_attr, embed_ident, folder_attr, folder, static_file_handler, then Ok(quote!{..})
Emit ==
    /\ pc = "axum_route"
    /\ static_file_handler' = StaticFileHandler(schema)
    /\ output' = <<[ok |-> TRUE, error |-> "", url |-> urls, method |-> methods,
                    router |-> axum_route, items |-> static_file_handler']>>
    /\ pc' = "done"
    /\ UNCHANGED <<schema, variants, urls, methods, axum_route>>
    /\ UNCHANGED <<urlVars, snakeVars>>

Next == Collect \/ CollectPanic \/ BuildUrls \/ BuildMethods \/ BuildRoutes \/ Emit

Spec == Init /\ [][Next]_vars

----------------------------------------------------------------------------
(* One arm of url(): generated, compiled, called *)

ArmVariant == <<"I", "t", "e", "m">>

\* The macro generates the arm of the variant.
GenArm ==
    /\ upc = "start"
    /\ arm' = <<UrlArm([path |-> path, method |-> "get", variant |-> ArmVariant, fields |-> fields])>>
    /\ upc' = "generated"
    /\ UNCHANGED <<path, fields, self, url>>
    /\ UNCHANGED <<macroVars, snakeVars>>

\* The value each argument of the arm's format! call names, through the
\* bindings of the arm's pattern.
ArgValues(a, value) == [k \in DOMAIN a.right.args |-> value[IndexIn(a.right.args[k], a.left.binds)]]

Eval(a, value) ==
    IF a.right.kind = "to_owned" THEN a.right.text
    ELSE Format(a.right.text, ArgValues(a, value))

Compiles(a) ==
    IF a.right.kind = "to_owned" THEN TRUE ELSE FormatAccepted(a.right.text, a.right.args)

\* url() is called on a value of the variant.
CallUrl ==
    /\ upc = "generated"
    /\ Compiles(arm[1])
    /\ url' = <<Eval(arm[1], self)>>
    /\ upc' = "returned"
    /\ UNCHANGED <<path, fields, self, arm>>
    /\ UNCHANGED <<macroVars, snakeVars>>

\* rustc rejects the generated format! call: markers and arguments differ in number.
RejectArm ==
    /\ upc = "generated"
    /\ ~Compiles(arm[1])
    /\ upc' = "rejected"
    /\ UNCHANGED <<path, fields, self, arm, url>>
    /\ UNCHANGED <<macroVars, snakeVars>>

NextUrl == GenArm \/ CallUrl \/ RejectArm

SpecUrl == InitUrl /\ [][NextUrl]_vars

----------------------------------------------------------------------------
(* One call of pascal_to_camel *)

CallPascalToCamel ==
    /\ spc = "start"
    /\ result' = pascal_to_camel(input)
    /\ spc' = "done"
    /\ UNCHANGED input
    /\ UNCHANGED <<macroVars, urlVars>>

NextSnake == CallPascalToCamel

SpecSnake == InitSnake /\ [][NextSnake]_vars

----------------------------------------------------------------------------
(* Properties of routes_macro *)

HttpMethods == {"get", "post", "put", "patch", "delete"}

\* Every RouteVariant::from has returned.
Collected == pc \in {"variants", "urls", "methods", "axum_route", "done"}

\* The keywords of the variant's method annotations.
MethodKeywords(v) ==
    {v.attrs[i].ident[1] : i \in {j \in DOMAIN v.attrs :
        v.attrs[j].ident # <<>> /\ v.attrs[j].ident[1] \in HttpMethods}}

\* C1: once method() is generated, the arm of every variant that carries a
\* method annotation returns the keyword of such an annotation of that variant,
\* whatever else the variant carries.
C1_MethodIsAnnotatedKeyword ==
    pc \in {"methods", "axum_route", "done"} =>
        \A i \in DOMAIN schema :
            MethodKeywords(schema[i]) # {} => methods[i].right \in MethodKeywords(schema[i])

IsOther(attr) == attr.ident # <<>> /\ attr.ident # <<"folder">>

\* The pair an annotation other than folder stands for: its keyword and path,
\* or (get, "/*file") when it has no string argument.
PairOf(attr) ==
    IF attr.arg # <<>> THEN [method |-> attr.ident[1], path |-> attr.arg[1]]
    ELSE [method |-> "get", path |-> StarFile]

\* C2: the pair selected for a variant is the pair of its last annotation other
\* than folder, whenever it has one: a folder annotation neither supplies nor
\* overrides it.
C2_FolderNeverOverrides ==
    Collected =>
        \A i \in DOMAIN schema :
            LET others == SelectSeq(schema[i].attrs, IsOther)
            IN others # <<>> =>
                  /\ variants[i].method = PairOf(others[Len(others)]).method
                  /\ variants[i].path = PairOf(others[Len(others)]).path

\* No get/post/put/patch/delete annotation and no embed marker.
Unrecognized(v) ==
    \A j \in DOMAIN v.attrs :
        v.attrs[j].ident = <<>> \/ v.attrs[j].ident[1] \notin (HttpMethods \cup {"embed"})

\* C3: an enum with a variant that has no recognized annotation never gets past
\* the collection of the variants, and the failure carries a message and no
\* generated item.
C3_UnrecognizedFails ==
    /\ (\E i \in DOMAIN schema : Unrecognized(schema[i])) => ~Collected
    /\ pc = "panicked" =>
          /\ output[1].ok = FALSE /\ output[1].error # ""
          /\ output[1].url = <<>> /\ output[1].method = <<>>
          /\ output[1].router = <<>> /\ output[1].items = <<>>

\* The handler names of VariantNames, written out.
HandlerNames ==
    << <<"g", "e", "t", "_", "u", "s", "e", "r">>, <<"s", "t", "a", "t", "i", "c">>,
       <<"h", "o", "m", "e">>, <<"a", "p", "i", "_", "v", "2">> >>

\* C6: the route table has one registration per variant, in declaration order;
\* the i-th is keyed by the path and method of the i-th variant and bound to the
\* snake-case handler of its name, and no other registration names that handler.
C6_OneRegistrationPerVariant ==
    pc \in {"axum_route", "done"} =>
        /\ Len(axum_route) = Len(schema)
        /\ \A i \in DOMAIN schema :
              /\ axum_route[i].path = variants[i].path
              /\ axum_route[i].method = variants[i].method
              /\ axum_route[i].fn_name = HandlerNames[i]
              /\ Cardinality({j \in DOMAIN axum_route : axum_route[j].fn_name = HandlerNames[i]}) = 1
        /\ pc = "done" => output[1].router = axum_route

C6_Witness ==
    /\ pc = "done" /\ Len(schema) = MaxVariants
    /\ \E i \in DOMAIN schema : ~HasEmbed(schema[i]) /\ schema[i].attrs = <<Post(PathB)>>

HasFolder(v) == \E j \in DOMAIN v.attrs : v.attrs[j].ident = <<"folder">>

FirstFolderAttr(v) ==
    v.attrs[CHOOSE j \in DOMAIN v.attrs :
        /\ v.attrs[j].ident = <<"folder">>
        /\ \A k \in 1..(j - 1) : v.attrs[k].ident # <<"folder">>]

MaxOf(S) == CHOOSE m \in S : \A n \in S : n <= m

\* The folder of the later-declared variant with a folder annotation.
LaterFolder ==
    LET fv == {i \in DOMAIN schema : HasFolder(schema[i])}
    IN IF fv = {} THEN Static
       ELSE IF FirstFolderAttr(schema[MaxOf(fv)]).arg = <<>> THEN Static
       ELSE FirstFolderAttr(schema[MaxOf(fv)]).arg[1]

Items(kind) == {j \in DOMAIN static_file_handler : static_file_handler[j].item = kind}

\* C7: at most one asset handler and one asset bundle are emitted, and the
\* bundle's folder is the one of the later-declared variant with a folder
\* annotation, "static" when its argument is no string (or no variant has one).
C7_LastFolderOneHandler ==
    pc = "done" =>
        /\ Cardinality(Items("fn")) <= 1
        /\ Cardinality(Items("struct")) <= 1
        /\ \A j \in Items("struct") : static_file_handler[j].folder = LaterFolder
        /\ output[1].items = static_file_handler

C7_Witness ==
    /\ pc = "done" /\ Items("struct") # {}
    /\ Cardinality({i \in DOMAIN schema : HasFolder(schema[i])}) >= 2
    /\ \E i, k \in DOMAIN schema :
          /\ i < k /\ HasFolder(schema[i]) /\ HasFolder(schema[k])
          /\ FirstFolderAttr(schema[i]).arg # FirstFolderAttr(schema[k]).arg

\* The pattern of a variant: bare, x0..x(N-1), or its field names.
ExpectedPattern(v) ==
    [enum |-> enum_name, variant |-> v.ident,
     kind |-> CASE v.fields.kind = "Unit" -> "Unit"
                [] v.fields.kind = "Unnamed" -> "Tuple"
                [] v.fields.kind = "Named" -> "Struct",
     binds |-> CASE v.fields.kind = "Unit" -> <<>>
                 [] v.fields.kind = "Unnamed" -> [j \in 1..Len(v.fields.list) |-> <<"x", Digits[j]>>]
                 [] v.fields.kind = "Named" -> v.fields.list]

\* C9: url() and method() have one arm per variant, in declaration order, and
\* the i-th arm of both has the pattern of the i-th variant.
C9_SameArms ==
    pc \in {"methods", "axum_route", "done"} =>
        /\ Len(urls) = Len(schema) /\ Len(methods) = Len(schema)
        /\ \A i \in DOMAIN schema :
              /\ urls[i].left = methods[i].left
              /\ urls[i].left = ExpectedPattern(schema[i])
        /\ pc = "done" => output[1].url = urls /\ output[1].method = methods

C9_Witness ==
    /\ pc = "done"
    /\ \E i, k \in DOMAIN schema :
          /\ schema[i].fields.kind = "Unnamed" /\ Len(schema[i].fields.list) > 1
          /\ schema[k].fields.kind = "Named"

EmbedMarked == {i \in DOMAIN schema : HasEmbed(schema[i])}

\* C10: handler and bundle are emitted exactly when some variant has the embed
\* marker; the bundle has the name of the last such variant, the handler the
\* snake-case form of it, and the route table registers that handler.
C10_AssetHandlerIffEmbed ==
    pc = "done" =>
        /\ (Items("fn") # {}) <=> (EmbedMarked # {})
        /\ (Items("struct") # {}) <=> (EmbedMarked # {})
        /\ \A j \in Items("struct") : static_file_handler[j].name = schema[MaxOf(EmbedMarked)].ident
        /\ \A j \in Items("fn") :
              /\ static_file_handler[j].name = HandlerNames[MaxOf(EmbedMarked)]
              /\ static_file_handler[j].bundle = schema[MaxOf(EmbedMarked)].ident
              /\ \E r \in DOMAIN axum_route : axum_route[r].fn_name = static_file_handler[j].name

C10_Witness == pc = "done" /\ Cardinality(EmbedMarked) >= 2 /\ Items("fn") # {}

----------------------------------------------------------------------------
(* Properties of url() *)

Generated == upc \in {"generated", "returned", "rejected"}

IsPlaceholder(part) == Len(part) > 0 /\ Head(part) = ":"

\* The number of placeholder segments among the first j segments.
Rank(parts, j) == Cardinality({k \in 1..j : IsPlaceholder(parts[k])})

\* C4: for positional fields the template is the path with each segment that
\* begins with ':' replaced by "{}" and the others unchanged, its arguments are
\* x0, x1, .. in order; generation succeeds whatever the number of fields; the
\* call is accepted exactly when the segments beginning with ':' are as many as
\* the fields, and then the i-th such segment from the left renders as field i.
C4_PositionalFill ==
    (Generated /\ fields.kind = "Unnamed") =>
        LET parts == Split(path)
            tmpl == Split(arm[1].right.text)
            n == Len(fields.list)
        IN /\ arm[1].right.kind = "format"
           /\ Len(tmpl) = Len(parts)
           /\ \A j \in DOMAIN parts :
                 tmpl[j] = IF IsPlaceholder(parts[j]) THEN <<"{", "}">> ELSE parts[j]
           /\ arm[1].right.args = [i \in 1..n |-> <<"x", Digits[i]>>]
           /\ upc = "rejected" <=> (upc # "generated" /\ Rank(parts, Len(parts)) # n)
           /\ upc = "returned" =>
                 /\ Len(Split(url[1])) = Len(parts)
                 /\ \A j \in DOMAIN parts :
                       Split(url[1])[j] = IF IsPlaceholder(parts[j])
                                          THEN Display(self[Rank(parts, j)])
                                          ELSE parts[j]
                 /\ (path = ItemsId /\ self = <<Value("int", <<"4", "2">>)>>) =>
                       url[1] = <<"/", "i", "t", "e", "m", "s", "/", "4", "2">>

C4_Witness ==
    /\ upc = "returned" /\ fields.kind = "Unnamed"
    /\ Len(self) > 1 /\ self[1] # self[2]
    /\ Len(Split(path)) > Len(self)

C4_WitnessItems ==
    /\ upc = "returned" /\ fields.kind = "Unnamed"
    /\ path = ItemsId /\ self = <<Value("int", <<"4", "2">>)>>

C4_WitnessUnchecked ==
    /\ upc = "generated" /\ fields.kind = "Unnamed"
    /\ Rank(Split(path), Len(Split(path))) # Len(fields.list)

\* name=<debug rendering of value>
ExpectedItem(name, v) ==
    name \o <<"=">> \o (IF v.kind = "str" THEN <<"\"">> \o v.text \o <<"\"">> ELSE v.text)

RECURSIVE ExpectedQuery(_, _)
ExpectedQuery(names, vals) ==
    IF names = <<>> THEN <<>>
    ELSE IF Len(names) = 1 THEN ExpectedItem(names[1], vals[1])
    ELSE ExpectedItem(names[1], vals[1]) \o <<"&">> \o ExpectedQuery(Tail(names), Tail(vals))

\* C5: for named fields the call is always accepted and url() is the path as
\* written, then '?', then name=<debug rendering> for each field in declaration
\* order, joined by '&'.
C5_NamedQuery ==
    (Generated /\ fields.kind = "Named") =>
        /\ upc # "rejected"
        /\ upc = "returned" =>
              /\ url[1] = path \o <<"?">> \o ExpectedQuery(fields.list, self)
              /\ (path = Search /\ self = <<Value("str", <<"x">>), Value("int", <<"2">>)>>) =>
                    url[1] = Search \o <<"?", "a", "=", "\"", "x", "\"", "&", "b", "=", "2">>

C5_Witness ==
    /\ upc = "returned" /\ fields.kind = "Named"
    /\ Len(self) > 1 /\ self[1].kind = "str" /\ self[2].kind = "int"
    /\ \E j \in DOMAIN Split(path) : IsPlaceholder(Split(path)[j])

----------------------------------------------------------------------------
(* Properties of pascal_to_camel *)

\* Lowercase form of a character.
Lower(c) ==
    CASE IsIn(c, UpperAscii) -> LowerAscii[IndexIn(c, UpperAscii)]
      [] IsIn(c, UpperOther) -> LowerOther[IndexIn(c, UpperOther)]
      [] OTHER -> c

IsUpper(c) == Lower(c) # c

\* The transform as documented: the first character lowercased, every later
\* uppercase character replaced by '_' and its lowercase form.
Documented(s) ==
    LET F[i \in 0..Len(s)] ==
            IF i = 0 THEN <<>>
            ELSE IF i = 1 THEN <<Lower(s[1])>>
            ELSE IF IsUpper(s[i]) THEN F[i - 1] \o <<"_", Lower(s[i])>>
            ELSE F[i - 1] \o <<s[i]>>
    IN F[Len(s)]

\* C8: the transform returns the documented string; it is the identity on
\* input without uppercase characters, and maps GetAllUsers to get_all_users
\* and HTTPServer to h_t_t_p_server.
C8_Transform ==
    spc = "done" =>
        /\ result = Documented(input)
        /\ (\A i \in DOMAIN input : ~IsUpper(input[i])) => result = input
        /\ input = GetAllUsers =>
              result = <<"g", "e", "t", "_", "a", "l", "l", "_", "u", "s", "e", "r", "s">>
        /\ input = HTTPServer =>
              result = <<"h", "_", "t", "_", "t", "_", "p", "_", "s", "e", "r", "v", "e", "r">>

====
